---- MODULE Spec2Model ----
(***************************************************************************)
(* SHIFT: the dimension state machine (DimensionManager), the two tile     *)
(* layers it drives, the enemies that react to a transition, and the       *)
(* GameScene handlers that call into it (shift request, scene clock,       *)
(* pause, level restart), with the colliders of the physics world and the  *)
(* player-enemy contact it reports.                                        *)
(*                                                                         *)
(* Time is the scene clock in milliseconds: it advances only in            *)
(* ClockUpdate, by the frame's delta, and stands still while the scene is  *)
(* paused.  Alpha values are in percent (1.0 = 100, 0.2 = 20); tints are   *)
(* the 24-bit colour values of the source written in decimal.              *)
(***************************************************************************)
EXTENDS Integers, Sequences, FiniteSets, TLC

\* ------------------------------------------------------------------------
\*  Bounds of the model
\* ------------------------------------------------------------------------
\* cells of each tile layer (the game's grid is TILES_X * TILES_Y cells)
NumCells == 2
\* enemy spawn descriptors of a level
MaxEnemies == 1
\* accepted shifts per level load
MaxShifts == 3
\* the time since the last accepted shift is counted up to this value
MaxSince == 260
\* the getState() calls since a button's last press are counted up to this value
MaxReads == 2
\* entries of ALL_LEVELS
NumLevels == 2
\* 'player-died' emissions per level load
MaxDeaths == 1

Cells == 1..NumCells

\* values of a level grid cell: 0 = empty, positive = tile id
GridValues == {0, 1}

\* frame deltas of the scene clock, in ms: a regular frame and a long one
Deltas == {50, 160}

\* ------------------------------------------------------------------------
\*  Constants.ts
\* ------------------------------------------------------------------------
LUMINA == "lumina"
UMBRA == "umbra"
SHIFT_DURATION_MS == 200
GHOST_ALPHA == 20
LUMINA_TINT == 16764996
UMBRA_TINT == 6702284

\* setAlpha(1) and tile.tint = 0xffffff in applyDimensionState
FULL_ALPHA == 100
NEUTRAL_TINT == 16777215

\* CameraManager.playShiftEffect: flash and shake durations and the one-way
\* duration of the zoom tween (yoyo); ParallaxBackground.onDimensionShift: the
\* one-way duration of the cross-fade tweens (yoyo);
\* ParticleManager.emitShiftBurst: the lifespan of the burst's particles
\* GameScene: the delay before the next level is loaded (completeLevel) and
\* before the level is restarted after a death (handlePlayerDeath)
LEVEL_ADVANCE_MS == 800
DEATH_RESTART_MS == 1000

FLASH_MS == 180
SHAKE_MS == 120
ZOOM_TWEEN_MS == 60
PARALLAX_TWEEN_MS == 100
BURST_LIFESPAN_MS == 400

Dimensions == {LUMINA, UMBRA}

EnemyTypes == {"patrol", "chase"}

\* sequences over S of length at most n
RECURSIVE SeqsUpTo(_, _)
SeqsUpTo(S, n) ==
  IF n = 0 THEN {<< >>}
  ELSE LET shorter == SeqsUpTo(S, n - 1)
       IN  shorter \cup {Append(s, x) : s \in {t \in shorter : Len(t) = n - 1}, x \in S}

\* a LevelDefinition: the two grids and the enemy spawn descriptors
Levels ==
  [lumina : [Cells -> GridValues],
   umbra : [Cells -> GridValues],
   enemies : SeqsUpTo(EnemyTypes, MaxEnemies)]

\* a level with ground in Lumina, nothing in Umbra and no enemies
GroundLevel ==
  [lumina |-> [c \in Cells |-> 1], umbra |-> [c \in Cells |-> 0], enemies |-> << >>]

VARIABLES
  currentLevel,   \* GameScene.currentLevel
  current,        \* DimensionManager.current
  isShifting,     \* DimensionManager.isShifting
  initialised,    \* DimensionManager.init() has supplied the layers and callback
  luminaLayer,    \* the Lumina TilemapLayer: alpha, depth, tiles
  umbraLayer,     \* the Umbra TilemapLayer
  enemies,        \* GameScene.enemies
  timers,         \* events pending on the scene clock (scene.time)
  colliders,      \* the colliders of the scene's physics world
  activeCollider, \* GameScene.activeCollider refers to a collider of this world
  enemyCollider,  \* GameScene.enemyCollider refers to a collider of this world
  paused,         \* scene.isPaused()
  accepted,       \* history: shifts accepted by this DimensionManager
  sinceAccept,    \* history: scene-clock ms since the last accepted shift
  lastCall,       \* history: the latest shift() call and its outcome
  notified,       \* history: invocations of onShiftCallback
  observed,       \* history: what the latest callback found (dimension, layers)
  lastStep,       \* history: the step just taken (scene start, enemy contact, other)
  touch,          \* the TouchControls fields _leftDown .. _shiftJustPressed
  touchHistory,   \* history: fingers down, presses, getState() calls and results
  currentLevelIndex, \* GameScene.currentLevelIndex
  levelComplete,  \* GameScene.levelComplete
  victory,        \* showVictory() has put up the victory screen
  listeners,      \* 'player-died' listeners on the scene's event emitter
  flow,           \* history of this level load: completions, deaths, handler runs
  audio,          \* the scene's AudioManager: ambient oscillator, pending timeouts
  orphan          \* the AudioManager of the scene instance torn down last

vars == <<currentLevel, current, isShifting, initialised, luminaLayer, umbraLayer, enemies,
          timers, colliders, activeCollider, enemyCollider, paused, accepted, sinceAccept, lastCall, notified,
          observed, lastStep, touch, touchHistory, currentLevelIndex, levelComplete,
          victory, listeners, flow, audio, orphan>>

audioVars == <<audio, orphan>>

flowVars == <<currentLevelIndex, levelComplete, victory, listeners, flow>>

inputVars == <<touch, touchHistory>>

\* the state the DimensionManager and the scene callbacks work on
progVars == <<current, isShifting, initialised, luminaLayer, umbraLayer, enemies, timers,
              colliders, activeCollider, enemyCollider>>

\* ------------------------------------------------------------------------
\*  Tile layers (GameScene.createTilemap)
\* ------------------------------------------------------------------------
\* createBlankLayer: every cell holds a tile of index -1, white, not colliding;
\* putTileAt is called for the cells whose grid value is positive
BuildLayer(grid) ==
  [alpha |-> FULL_ALPHA,
   depth |-> 0,
   tiles |-> [c \in Cells |->
                [index |-> IF grid[c] > 0 THEN grid[c] ELSE -1,
                 tint |-> NEUTRAL_TINT,
                 collides |-> FALSE]]]

Occupied(layer, c) == layer.tiles[c].index > 0

\* layer.forEachTile(tile => tile.tint = t)
SetTintAll(layer, t) ==
  [layer EXCEPT !.tiles = [c \in Cells |-> [layer.tiles[c] EXCEPT !.tint = t]]]

\* mutant: only index 0 is excluded, so tiles of index -1 are set to collide
SetCollisionByExclusion_ZeroOnly(layer) ==
  [layer EXCEPT !.tiles =
     [c \in Cells |->
        IF layer.tiles[c].index \notin {0}
        THEN [layer.tiles[c] EXCEPT !.collides = TRUE]
        ELSE layer.tiles[c]]]

\* mutant: the call flips the collision flag of the tiles it selects
SetCollisionByExclusion_Flips(layer) ==
  [layer EXCEPT !.tiles =
     [c \in Cells |->
        IF layer.tiles[c].index \notin {0, -1}
        THEN [layer.tiles[c] EXCEPT !.collides = ~@]
        ELSE layer.tiles[c]]]

\* layer.setCollisionByExclusion([0, -1]): every tile whose index is not
\* excluded is set to collide; the excluded ones are left as they are
SetCollisionByExclusion(layer) ==
  [layer EXCEPT !.tiles =
     [c \in Cells |->
        IF layer.tiles[c].index \notin {0, -1}
        THEN [layer.tiles[c] EXCEPT !.collides = TRUE]
        ELSE layer.tiles[c]]]

\* layer.forEachTile(tile => tile.setCollision(false))
ClearCollisionAll(layer) ==
  [layer EXCEPT !.tiles = [c \in Cells |-> [layer.tiles[c] EXCEPT !.collides = FALSE]]]

\* mutant: the layer that becomes active keeps the tint it had as a ghost
ApplyActive_KeepsTint(layer) ==
  [SetCollisionByExclusion([layer EXCEPT !.alpha = FULL_ALPHA]) EXCEPT !.depth = 1]

ApplyActive(layer) ==
  [SetCollisionByExclusion(SetTintAll([layer EXCEPT !.alpha = FULL_ALPHA], NEUTRAL_TINT))
     EXCEPT !.depth = 1]

\* mutant: the ghost layer keeps its collision flags
ApplyInactive_KeepsCollision(layer, tint) ==
  [SetTintAll([layer EXCEPT !.alpha = GHOST_ALPHA], tint) EXCEPT !.depth = 0]

ApplyInactive(layer, tint) ==
  [ClearCollisionAll(SetTintAll([layer EXCEPT !.alpha = GHOST_ALPHA], tint))
     EXCEPT !.depth = 0]

\* ------------------------------------------------------------------------
\*  DimensionManager
\* ------------------------------------------------------------------------
\* The operators below work on a record of the fields they read and write:
\* current, isShifting, initialised, luminaLayer, umbraLayer, enemies, timers,
\* colliders, activeCollider, enemyCollider, the history fields notified and observed,
\* and threw (an exception is propagating).

\* mutant: the Umbra literal misspelt
OtherDimension_Typo(d) == IF d = LUMINA THEN "Umbra" ELSE LUMINA

\* mutant: the flip only goes one way
OtherDimension_OneWay(d) == IF d = LUMINA THEN UMBRA ELSE d

\* this.current === LUMINA ? UMBRA : LUMINA
OtherDimension(d) == IF d = LUMINA THEN UMBRA ELSE LUMINA

\* Before init() this.luminaLayer and this.umbraLayer are undefined, and the
\* first statement, activeLayer.setAlpha(1), raises a TypeError.
applyDimensionState(s) ==
  LET isLumina == s.current = LUMINA
      inactiveTint == IF isLumina THEN UMBRA_TINT ELSE LUMINA_TINT
  IN  IF ~s.initialised THEN [s EXCEPT !.threw = TRUE]
      ELSE [s EXCEPT
              !.luminaLayer = IF isLumina THEN ApplyActive(@) ELSE ApplyInactive(@, inactiveTint),
              !.umbraLayer = IF isLumina THEN ApplyInactive(@, inactiveTint) ELSE ApplyActive(@)]

getCurrent(s) == s.current

getIsShifting(s) == s.isShifting

getActiveLayer(s) == IF s.current = LUMINA THEN s.luminaLayer ELSE s.umbraLayer

getInactiveLayer(s) == IF s.current = LUMINA THEN s.umbraLayer ELSE s.luminaLayer

\* mutant: the event is put on the clock twice
delayedCall_Twice(s, delay, kind) ==
  LET event == [kind |-> kind, delay |-> delay, elapsed |-> 0]
  IN  [s EXCEPT !.timers = Append(Append(@, event), event)]

\* scene.time.delayedCall(delay, callback): the event starts with elapsed 0
delayedCall(s, delay, kind) ==
  [s EXCEPT !.timers = Append(@, [kind |-> kind, delay |-> delay, elapsed |-> 0])]

\* ------------------------------------------------------------------------
\*  Enemy
\* ------------------------------------------------------------------------
\* PatrolEnemy is Lumina-locked, ChaseEnemy is Umbra-locked; a new enemy is
\* active, opaque, untinted, with its body enabled; a ChaseEnemy starts not
\* chasing (a PatrolEnemy has no such field and keeps FALSE here)
NewEnemy(type) ==
  [type |-> type,
   dimension |-> IF type = "patrol" THEN LUMINA ELSE UMBRA,
   isActive |-> TRUE,
   alpha |-> FULL_ALPHA,
   tint |-> NEUTRAL_TINT,
   bodyEnable |-> TRUE,
   isChasing |-> FALSE]

\* mutant: a ghost keeps its physics body enabled
EnemyOnDimensionShift_BodyStaysOn(e, currentDimension) ==
  IF currentDimension = e.dimension
  THEN [e EXCEPT !.isActive = TRUE, !.alpha = FULL_ALPHA, !.tint = NEUTRAL_TINT,
                 !.bodyEnable = TRUE]
  ELSE [e EXCEPT !.isActive = FALSE, !.alpha = GHOST_ALPHA,
                 !.tint = IF e.dimension = LUMINA THEN LUMINA_TINT ELSE UMBRA_TINT]

\* mutant: a ghost takes the tint of the dimension that became active
EnemyOnDimensionShift_TintOfActive(e, currentDimension) ==
  IF currentDimension = e.dimension
  THEN [e EXCEPT !.isActive = TRUE, !.alpha = FULL_ALPHA, !.tint = NEUTRAL_TINT,
                 !.bodyEnable = TRUE]
  ELSE [e EXCEPT !.isActive = FALSE, !.alpha = GHOST_ALPHA,
                 !.tint = IF currentDimension = LUMINA THEN LUMINA_TINT ELSE UMBRA_TINT,
                 !.bodyEnable = FALSE]

EnemyOnDimensionShift(e, currentDimension) ==
  IF currentDimension = e.dimension
  THEN [e EXCEPT !.isActive = TRUE, !.alpha = FULL_ALPHA, !.tint = NEUTRAL_TINT,
                 !.bodyEnable = TRUE]
  ELSE [e EXCEPT !.isActive = FALSE, !.alpha = GHOST_ALPHA,
                 !.tint = IF e.dimension = LUMINA THEN LUMINA_TINT ELSE UMBRA_TINT,
                 !.bodyEnable = FALSE]

\* where the player is for a ChaseEnemy with detection range r: nearer than
\* r, between r and 1.5 r, farther than 1.5 r
PlayerRanges == {"near", "between", "far"}

\* values of 0.8 + Math.sin(Date.now() * 0.01) * 0.2, in percent: the lowest,
\* the middle and the highest
PulseAlphas == {60, 80, 100}

\* PatrolEnemy.updateAI: sets the velocity, the patrol direction and the
\* sprite's flip; alpha, tint, body and activation are not written
PatrolUpdateAI(e) == e

\* mutant: the chase runs whether or not the enemy is active
ChaseUpdateAI_NoActiveCheck(e, range, pulse) ==
  LET chasing == IF range = "near" THEN TRUE
                 ELSE IF range = "far" THEN FALSE
                 ELSE e.isChasing
  IN  IF chasing
      THEN [e EXCEPT !.isChasing = TRUE, !.alpha = pulse]
      ELSE [e EXCEPT !.isChasing = FALSE]

\* ChaseEnemy.updateAI: a ghost stops and forgets the chase; an active one
\* starts chasing when the player is near, stops when the player is far, and
\* while chasing sets its alpha to the pulse value
ChaseUpdateAI(e, range, pulse) ==
  IF ~e.isActive THEN [e EXCEPT !.isChasing = FALSE]
  ELSE LET chasing == IF range = "near" THEN TRUE
                      ELSE IF range = "far" THEN FALSE
                      ELSE e.isChasing
       IN  IF chasing
           THEN [e EXCEPT !.isChasing = TRUE, !.alpha = pulse]
           ELSE [e EXCEPT !.isChasing = FALSE]

\* enemy.updateAI(player.x, player.y, delta)
updateAI(e, range, pulse) ==
  IF e.type = "patrol" THEN PatrolUpdateAI(e) ELSE ChaseUpdateAI(e, range, pulse)

\* ------------------------------------------------------------------------
\*  GameScene
\* ------------------------------------------------------------------------
\* A collider binds to a layer object; the layers are named after their
\* fields.  This is the layer object getActiveLayer() returns.
ActiveLayerId(s) == IF s.current = LUMINA THEN "luminaLayer" ELSE "umbraLayer"

\* The physics world holds the player-to-layer colliders (playerTile, the
\* layer of each, oldest first), one enemy-to-layer collider per enemy
\* (enemyTile) and the player-enemies overlaps (overlaps, their number).  A
\* scene field refers to the collider of its kind created last, or, after a
\* restart, to one of the world that was torn down.
NoColliders == [playerTile |-> << >>, enemyTile |-> << >>, overlaps |-> 0]

\* mutant: the previous collider is not destroyed
rebuildCollider_NoDestroy(s) ==
  [s EXCEPT !.colliders.playerTile = Append(@, ActiveLayerId(s)),
            !.activeCollider = TRUE]

\* the layer object getInactiveLayer() returns
InactiveLayerId(s) == IF s.current = LUMINA THEN "umbraLayer" ELSE "luminaLayer"

\* the four query methods of the DimensionManager
Getters == {"getCurrent", "getActiveLayer", "getInactiveLayer", "getIsShifting"}

\* mutant: getIsShifting() clears the flag it reports
GetterCall_ClearsLock(s, getter) ==
  IF getter = "getIsShifting" THEN [s EXCEPT !.isShifting = FALSE] ELSE s

\* what a call of a getter does to the manager: each is a single return
\* statement and assigns nothing
GetterCall(s, getter) == s

\* rebuildCollider: destroy the collider the field refers to, then bind the
\* player to the active layer
rebuildCollider(s) ==
  LET destroyed ==
        IF s.activeCollider
        THEN [s EXCEPT !.colliders.playerTile = SubSeq(@, 1, Len(@) - 1)]
        ELSE s
  IN  [destroyed EXCEPT !.colliders.playerTile = Append(@, ActiveLayerId(s)),
                        !.activeCollider = TRUE]

\* rebuildEnemyCollider: destroy the overlap the field refers to, then add the
\* overlap of the player with the enemies
rebuildEnemyCollider(s) ==
  LET destroyed ==
        IF s.enemyCollider THEN [s EXCEPT !.colliders.overlaps = @ - 1] ELSE s
  IN  [destroyed EXCEPT !.colliders.overlaps = @ + 1, !.enemyCollider = TRUE]

\* the visual effects GameScene.onDimensionShift starts, each with the time it
\* runs from the accepted shift that started it; a yoyo tween plays forth and
\* back
ShiftEffects ==
  {[effect |-> "flash", runs |-> FLASH_MS],
   [effect |-> "shake", runs |-> SHAKE_MS],
   [effect |-> "zoom", runs |-> 2 * ZOOM_TWEEN_MS],
   [effect |-> "parallax", runs |-> 2 * PARALLAX_TWEEN_MS],
   [effect |-> "burst", runs |-> BURST_LIFESPAN_MS]}

\* places of onDimensionShift where a collaborator may raise an exception
\* AudioManager, the ambient drone.  supported: ensureContext() returns a
\* context (it returns null where Web Audio is missing); oscillators: the
\* ambient oscillators started and not stopped; pending: the setTimeout
\* callbacks of crossfadeAmbient() not yet run; silenced (history): the scene
\* has stopped the drone on completion, death or restart
NewAudioManager(supported) ==
  [supported |-> supported, oscillators |-> 0, pending |-> 0, silenced |-> FALSE]

\* stopAmbient(): the oscillator, if any, is stopped and forgotten
stopAmbient(a) == [a EXCEPT !.oscillators = 0]

\* startAmbient(): stopAmbient() first, then a new oscillator unless there is
\* no context
startAmbient(a) ==
  LET stopped == stopAmbient(a)
  IN  IF ~a.supported THEN stopped ELSE [stopped EXCEPT !.oscillators = @ + 1]

\* crossfadeAmbient(): nothing without a context; else the old drone fades
\* and setTimeout(startAmbient, 350) is left pending
crossfadeAmbient(a) == IF ~a.supported THEN a ELSE [a EXCEPT !.pending = @ + 1]

\* the setTimeout callback of crossfadeAmbient()
AmbientTimeoutCallback(a) == startAmbient([a EXCEPT !.pending = @ - 1])

\* stopAmbient() as called by completeLevel, handlePlayerDeath, restartLevel
SceneStopsAmbient(a) == [stopAmbient(a) EXCEPT !.silenced = TRUE]

FaultPoints == {"audio", "enemyCollider"}

\* what a subscriber finds when the notification reaches it
Snapshot(s) ==
  [dim |-> s.current, luminaLayer |-> s.luminaLayer, umbraLayer |-> s.umbraLayer]

\* onDimensionShift: collider rebuild, camera, particles, audio, parallax,
\* then every enemy, then the enemy collider.  fault names the call that
\* throws, "none" when every collaborator returns.
onDimensionShift(s, fault) ==
  LET entered == [s EXCEPT !.notified = @ + 1, !.observed = <<Snapshot(s)>>]
      rebuilt == rebuildCollider(entered)
      dim == rebuilt.current
      played == [rebuilt EXCEPT !.audio = crossfadeAmbient(@)]
      notifiedEnemies ==
        [played EXCEPT !.enemies =
           [i \in DOMAIN played.enemies |-> EnemyOnDimensionShift(played.enemies[i], dim)]]
  IN  IF fault = "audio" THEN [rebuilt EXCEPT !.threw = TRUE]
      ELSE IF fault = "enemyCollider" THEN [notifiedEnemies EXCEPT !.threw = TRUE]
      ELSE rebuildEnemyCollider(notifiedEnemies)

\* mutant: the callback runs before the layers are updated
shiftAccepted_CallbackFirst(s, fault) ==
  LET locked == [s EXCEPT !.isShifting = TRUE]
      flipped == [locked EXCEPT !.current = OtherDimension(@)]
      called == onDimensionShift(flipped, fault)
      applied == applyDimensionState(called)
  IN  IF called.threw THEN called
      ELSE delayedCall(applied, SHIFT_DURATION_MS, "unlock")

\* shift() once the guard has let the call through
shiftAccepted(s, fault) ==
  LET locked == [s EXCEPT !.isShifting = TRUE]
      flipped == [locked EXCEPT !.current = OtherDimension(@)]
      applied == applyDimensionState(flipped)
      called == onDimensionShift(applied, fault)
  IN  IF applied.threw THEN applied
      ELSE IF called.threw THEN called
      ELSE delayedCall(called, SHIFT_DURATION_MS, "unlock")

\* mutant: no spam guard
shift_NoGuard(s, fault) == shiftAccepted(s, fault)

\* mutant: a call during the lock restarts the pending unlock event
shift_Debounce(s, fault) ==
  IF s.isShifting
  THEN [s EXCEPT !.timers = [i \in DOMAIN s.timers |-> [s.timers[i] EXCEPT !.elapsed = 0]]]
  ELSE shiftAccepted(s, fault)

\* mutant: the callback is invoked for a dropped call too
shift_NotifiesDropped(s, fault) ==
  IF s.isShifting THEN onDimensionShift(s, fault) ELSE shiftAccepted(s, fault)

\* DimensionManager.shift()
shift(s, fault) == IF s.isShifting THEN s ELSE shiftAccepted(s, fault)

\* mutant: the enemies are not told the dimension they are spawned in
spawnEnemies_NoInitialState(s, level) ==
  LET spawned ==
        [s EXCEPT !.enemies = [i \in DOMAIN level.enemies |-> NewEnemy(level.enemies[i])],
                  !.colliders.enemyTile = [i \in DOMAIN level.enemies |-> ActiveLayerId(s)]]
  IN  rebuildEnemyCollider(spawned)

\* spawnEnemies: one enemy per spawn descriptor, each with a collider against
\* the layer that is active now; then the player-enemies overlap; then each
\* enemy is told the current dimension
spawnEnemies(s, level) ==
  LET spawned ==
        [s EXCEPT !.enemies = [i \in DOMAIN level.enemies |-> NewEnemy(level.enemies[i])],
                  !.colliders.enemyTile = [i \in DOMAIN level.enemies |-> ActiveLayerId(s)]]
      overlapped == rebuildEnemyCollider(spawned)
  IN  [overlapped EXCEPT !.enemies =
         [i \in DOMAIN overlapped.enemies |->
            EnemyOnDimensionShift(overlapped.enemies[i], overlapped.current)]]

\* create() up to new DimensionManager(this): the tilemap is built and the
\* manager constructed (current = LUMINA, isShifting = false), its layers and
\* callback not yet supplied.  The started scene's clock holds no events and
\* its physics world no colliders; the collider fields are undefined on the
\* first start and refer to colliders of the previous world after a restart.
Constructed(level) ==
  [current |-> LUMINA,
   isShifting |-> FALSE,
   initialised |-> FALSE,
   luminaLayer |-> BuildLayer(level.lumina),
   umbraLayer |-> BuildLayer(level.umbra),
   enemies |-> << >>,
   timers |-> << >>,
   colliders |-> NoColliders,
   activeCollider |-> FALSE,
   enemyCollider |-> FALSE,
   notified |-> 0,
   observed |-> << >>,
   threw |-> FALSE]

\* DimensionManager.init(): the layers and the callback are stored, then the
\* layer state is applied for the current dimension
DimensionManagerInit(s) == applyDimensionState([s EXCEPT !.initialised = TRUE])

\* create() from dimensionManager.init() on: the player's collider, the enemies
FinishCreate(s, level) == spawnEnemies(rebuildCollider(DimensionManagerInit(s)), level)

\* create()
Create(level) == FinishCreate(Constructed(level), level)

\* ------------------------------------------------------------------------
\*  GameScene: completion, death, restart
\* ------------------------------------------------------------------------
\* scene.restart(data) is queued by the scene manager and carried out at the
\* next step of the game; of several requests of one frame the last is the
\* one whose level is loaded
sceneRestart(s, levelIndex) == [s EXCEPT !.restart = <<levelIndex>>]

\* restartLevel()
restartLevel(s) ==
  sceneRestart([s EXCEPT !.audio = SceneStopsAmbient(@)], s.currentLevelIndex)

\* completeLevel(): once per load the chime, the audio stop and either the
\* delayed restart into the next level or the victory screen
completeLevel(s) ==
  IF s.levelComplete THEN s
  ELSE LET done == [s EXCEPT !.levelComplete = TRUE,
                             !.flow.effects = @ + 1,
                             !.audio = SceneStopsAmbient(@)]
           nextIndex == s.currentLevelIndex + 1
       IN  IF nextIndex < NumLevels
           THEN delayedCall(done, LEVEL_ADVANCE_MS, "advance")
           ELSE [done EXCEPT !.victory = TRUE]

\* handlePlayerDeath(): the effects, the audio stop, the delayed restartLevel()
handlePlayerDeath(s) ==
  delayedCall([s EXCEPT !.flow.handled = @ + 1, !.audio = SceneStopsAmbient(@)],
              DEATH_RESTART_MS, "deathRestart")

\* events.emit('player-died'): every listener registered runs
RECURSIVE emitPlayerDied(_, _)
emitPlayerDied(s, n) ==
  IF n = 0 THEN s ELSE emitPlayerDied(handlePlayerDeath(s), n - 1)

\* mutant: update() runs the player after the level is complete
update_NoGuard(s, wantsShift, atExit) ==
  LET played == IF wantsShift THEN shift(s, "none") ELSE s
  IN  IF atExit THEN completeLevel(played) ELSE played

\* update(): nothing once the level is complete; else the player (who may
\* ask for a shift), then checkExit(), which completes the level when the
\* player is within reach of the portal
update(s, wantsShift, atExit) ==
  IF s.levelComplete THEN s
  ELSE LET played == IF wantsShift THEN shift(s, "none") ELSE s
       IN  IF atExit THEN completeLevel(played) ELSE played

\* ------------------------------------------------------------------------
\*  Scene clock (scene.time)
\* ------------------------------------------------------------------------
\* mutant: an event fires only after its delay has been exceeded
TimerDue_Strict(t) == t.elapsed > t.delay

TimerDue(t) == t.elapsed >= t.delay

TimerWaiting(t) == ~TimerDue(t)

\* mutant: the unlock callback announces the end of the transition
TimerCallback_Notifies(s, t) ==
  IF t.kind = "unlock" THEN [onDimensionShift(s, "none") EXCEPT !.isShifting = FALSE] ELSE s

\* mutant: the unlock callback leaves the flag set
TimerCallback_KeepsLock(s, t) == s

\* the callback given to delayedCall in completeLevel(): its nextIndex is
\* currentLevelIndex + 1, the index being written by init() only
advanceCallback(s) == sceneRestart(s, s.currentLevelIndex + 1)

\* the callback given to delayedCall in handlePlayerDeath()
deathRestartCallback(s) == restartLevel(s)

\* the callback of a clock event; for "unlock" the one given to delayedCall
\* in shift()
TimerCallback(s, t) ==
  IF t.kind = "unlock" THEN [s EXCEPT !.isShifting = FALSE]
  ELSE IF t.kind = "advance" THEN advanceCallback(s)
  ELSE IF t.kind = "deathRestart" THEN deathRestartCallback(s)
  ELSE s

RECURSIVE RunCallbacks(_, _)
RunCallbacks(s, due) ==
  IF due = << >> THEN s
  ELSE RunCallbacks(TimerCallback(s, Head(due)), Tail(due))

\* one update of the clock: every event gains the frame's delta, the due
\* ones run their callback in order and leave the clock
clockUpdate(s, delta) ==
  LET advanced == [i \in DOMAIN s.timers |-> [s.timers[i] EXCEPT !.elapsed = @ + delta]]
  IN  RunCallbacks([s EXCEPT !.timers = SelectSeq(advanced, TimerWaiting)],
                   SelectSeq(advanced, TimerDue))

\* ------------------------------------------------------------------------
\*  TouchControls
\* ------------------------------------------------------------------------
Buttons == {"left", "right", "jump", "shift"}

\* the buttons that give an impulse rather than a held state
ImpulseButtons == {"jump", "shift"}

\* a new TouchControls: no flag set
NewTouchControls ==
  [leftDown |-> FALSE, rightDown |-> FALSE,
   jumpJustPressed |-> FALSE, shiftJustPressed |-> FALSE]

\* the onDown callbacks given to createButton
onDown(t, button) ==
  CASE button = "left" -> [t EXCEPT !.leftDown = TRUE]
    [] button = "right" -> [t EXCEPT !.rightDown = TRUE]
    [] button = "jump" -> [t EXCEPT !.jumpJustPressed = TRUE]
    [] button = "shift" -> [t EXCEPT !.shiftJustPressed = TRUE]

\* the onUp callbacks: jump and shift keep no held state
onUp(t, button) ==
  CASE button = "left" -> [t EXCEPT !.leftDown = FALSE]
    [] button = "right" -> [t EXCEPT !.rightDown = FALSE]
    [] OTHER -> t

\* mutant: the just-pressed flags are not reset after reading
getState_NoReset(t) == [state |-> t, controls |-> t]

\* getState(): the state returned, and the controls with the just-pressed
\* flags reset
getState(t) ==
  [state |-> t,
   controls |-> [t EXCEPT !.jumpJustPressed = FALSE, !.shiftJustPressed = FALSE]]

\* no finger down, no press yet, getState() not called yet.  reads counts the
\* getState() calls since the button's last pointerdown; returned, readNo and
\* readHeld are the latest call's result, its number since the press (0 if
\* there was none) and whether the finger was down
NoTouchHistory ==
  [held |-> [b \in Buttons |-> FALSE],
   pressed |-> [b \in ImpulseButtons |-> FALSE],
   reads |-> [b \in ImpulseButtons |-> 0],
   read |-> FALSE,
   returned |-> NewTouchControls,
   readNo |-> [b \in ImpulseButtons |-> 0],
   readHeld |-> [b \in ImpulseButtons |-> FALSE]]

\* ------------------------------------------------------------------------
\*  The state machine
\* ------------------------------------------------------------------------
Working ==
  [current |-> current, isShifting |-> isShifting, initialised |-> initialised,
   luminaLayer |-> luminaLayer,
   umbraLayer |-> umbraLayer, enemies |-> enemies, timers |-> timers,
   colliders |-> colliders, activeCollider |-> activeCollider,
   enemyCollider |-> enemyCollider,
   notified |-> notified, observed |-> observed, threw |-> FALSE,
   currentLevelIndex |-> currentLevelIndex, levelComplete |-> levelComplete,
   victory |-> victory, listeners |-> listeners, flow |-> flow, restart |-> << >>,
   audio |-> audio, orphan |-> orphan]

Store(r) ==
  /\ current' = r.current
  /\ isShifting' = r.isShifting
  /\ initialised' = r.initialised
  /\ luminaLayer' = r.luminaLayer
  /\ umbraLayer' = r.umbraLayer
  /\ enemies' = r.enemies
  /\ timers' = r.timers
  /\ colliders' = r.colliders
  /\ activeCollider' = r.activeCollider
  /\ enemyCollider' = r.enemyCollider
  /\ notified' = r.notified
  /\ observed' = r.observed

\* the scene's own fields, for the handlers that write them
StoreScene(r) ==
  /\ levelComplete' = r.levelComplete
  /\ victory' = r.victory
  /\ listeners' = r.listeners
  /\ flow' = r.flow
  /\ currentLevelIndex' = r.currentLevelIndex

StoreAudio(r) ==
  /\ audio' = r.audio
  /\ orphan' = r.orphan

Min(a, b) == IF a < b THEN a ELSE b

\* mutant: create() adds its listener without removing the old ones
CreateListeners_NoOff(n) == n + 1

\* create(): events.off('player-died') removes every listener of the event,
\* events.on adds one
CreateListeners(n) == 1

NoFlow == [effects |-> 0, deaths |-> 0, handled |-> 0]

\* mutant: the DimensionManager outlives the scene restart
Loaded_KeepsManager(level, index, manager) ==
  /\ currentLevel' = level
  /\ audio' = startAmbient(NewAudioManager(manager.supported))
  /\ orphan' = IF manager.pending > 0 THEN manager ELSE NewAudioManager(manager.supported)
  /\ currentLevelIndex' = index
  /\ levelComplete' = FALSE
  /\ victory' = FALSE
  /\ listeners' = CreateListeners(listeners)
  /\ flow' = NoFlow
  /\ Store(applyDimensionState([Create(level) EXCEPT !.current = current,
                                                     !.isShifting = isShifting]))
  /\ paused' = FALSE
  /\ accepted' = 0
  /\ sinceAccept' = 0
  /\ lastCall' = [made |-> FALSE, first |-> TRUE, since |-> 0, accepted |-> FALSE,
                  threw |-> FALSE]
  /\ lastStep' = [kind |-> "restart", current |-> current, isShifting |-> isShifting,
                  fromIndex |-> currentLevelIndex, fromComplete |-> levelComplete,
                  fromVictory |-> victory]
  /\ touch' = NewTouchControls
  /\ touchHistory' = NoTouchHistory

\* the scene is started over for a level: init(data) and create(), which
\* makes a new AudioManager; the old one (manager) lives on while a timeout
\* of its own is pending.  lastStep keeps what the scene torn down was in
Loaded(level, index, manager) ==
  /\ currentLevel' = level
  /\ audio' = startAmbient(NewAudioManager(manager.supported))
  /\ orphan' = IF manager.pending > 0 THEN manager ELSE NewAudioManager(manager.supported)
  /\ currentLevelIndex' = index
  /\ levelComplete' = FALSE
  /\ victory' = FALSE
  /\ listeners' = CreateListeners(listeners)
  /\ flow' = NoFlow
  /\ Store(Create(level))
  /\ paused' = FALSE
  /\ accepted' = 0
  /\ sinceAccept' = 0
  /\ lastCall' = [made |-> FALSE, first |-> TRUE, since |-> 0, accepted |-> FALSE,
                  threw |-> FALSE]
  /\ lastStep' = [kind |-> "restart", current |-> current, isShifting |-> isShifting,
                  fromIndex |-> currentLevelIndex, fromComplete |-> levelComplete,
                  fromVictory |-> victory]
  /\ touch' = NewTouchControls
  /\ touchHistory' = NoTouchHistory

\* the game's levels, from the first to the last
ALL_LEVELS == [i \in 0 .. NumLevels - 1 |-> GroundLevel]

\* the level of an index: the one being played, or the table's
LevelFor(index) == IF index = currentLevelIndex THEN currentLevel ELSE ALL_LEVELS[index]

\* MenuScene has started GameScene with levelIndex 0 and create() has run
InitLoaded(level, webAudio) ==
  LET r == Create(level)
  IN  /\ currentLevel = level
      /\ current = r.current
      /\ isShifting = r.isShifting
      /\ initialised = r.initialised
      /\ luminaLayer = r.luminaLayer
      /\ umbraLayer = r.umbraLayer
      /\ enemies = r.enemies
      /\ timers = r.timers
      /\ colliders = r.colliders
      /\ activeCollider = r.activeCollider
      /\ enemyCollider = r.enemyCollider
      /\ notified = r.notified
      /\ observed = r.observed
      /\ paused = FALSE
      /\ accepted = 0
      /\ sinceAccept = 0
      /\ lastCall = [made |-> FALSE, first |-> TRUE, since |-> 0, accepted |-> FALSE,
                     threw |-> FALSE]
      /\ lastStep = [kind |-> "start"]
      /\ touch = NewTouchControls
      /\ touchHistory = NoTouchHistory
      /\ currentLevelIndex = 0
      /\ levelComplete = FALSE
      /\ victory = FALSE
      /\ listeners = CreateListeners(0)
      /\ flow = NoFlow
      /\ audio = startAmbient(NewAudioManager(webAudio))
      /\ orphan = NewAudioManager(webAudio)

\* the DimensionManager and its collaborators are studied where the
\* AudioManager has no context (ensureContext() returns null and every call
\* of the ambient drone returns at once); SceneSpec has the context
Init == \E level \in Levels : InitLoaded(level, FALSE)

\* Player.update asks for a shift: dimensionManager.shift() in a running scene
ShiftCall(fault) ==
  /\ ~paused
  /\ ~levelComplete
  /\ isShifting \/ accepted < MaxShifts
  /\ LET r == shift(Working, fault)
     IN  /\ Store(r)
         /\ StoreAudio(r)
         /\ lastCall' = [made |-> TRUE, first |-> accepted = 0, since |-> sinceAccept,
                         accepted |-> ~isShifting, threw |-> r.threw]
  /\ accepted' = IF isShifting THEN accepted ELSE accepted + 1
  /\ sinceAccept' = IF isShifting THEN sinceAccept ELSE 0
  /\ lastStep' = [kind |-> "other"]
  /\ UNCHANGED <<currentLevel, paused>>
  /\ UNCHANGED inputVars
  /\ UNCHANGED flowVars

Shift == ShiftCall("none")

\* a shift during which a collaborator of the callback throws
ShiftFault == \E fault \in FaultPoints : ShiftCall(fault)

\* one frame of the running scene: the clock advances by the frame's delta;
\* a restart asked for by a callback is carried out
ClockStep(deltas) ==
  /\ ~paused
  /\ \E delta \in deltas :
       LET r == clockUpdate(Working, delta)
       IN  IF r.restart # << >>
           THEN Loaded(LevelFor(r.restart[1]), r.restart[1], r.audio)
           ELSE /\ Store(r)
                /\ StoreScene(r)
                /\ StoreAudio(r)
                /\ sinceAccept' = IF accepted > 0 THEN Min(sinceAccept + delta, MaxSince)
                                  ELSE 0
                /\ lastStep' = [kind |-> "other"]
                /\ UNCHANGED <<currentLevel, paused, accepted, lastCall>>
                /\ UNCHANGED inputVars

ClockUpdate == ClockStep(Deltas)

\* keydown-ESC
TogglePause ==
  /\ paused' = ~paused
  /\ lastStep' = [kind |-> "other"]
  /\ UNCHANGED <<currentLevel, current, isShifting, initialised, luminaLayer, umbraLayer, enemies,
                 timers, colliders, activeCollider, enemyCollider, accepted,
                 sinceAccept, lastCall, notified, observed>>
  /\ UNCHANGED inputVars
  /\ UNCHANGED flowVars
  /\ UNCHANGED audioVars

\* keydown-R: restartLevel() restarts the scene with the same level index
RestartLevel ==
  LET r == restartLevel(Working)
  IN  Loaded(LevelFor(r.restart[1]), r.restart[1], r.audio)

\* The physics step of a running scene finds the player on enemy i and runs
\* the callback of the player-enemies overlap: takeDamage if the enemy
\* canDamage().  The world processes an overlap only for an enabled body.
EnemyContact(i) ==
  /\ ~paused
  /\ colliders.overlaps > 0
  /\ enemies[i].bodyEnable
  /\ lastStep' = [kind |-> "contact", home |-> enemies[i].dimension,
                  current |-> current, damaged |-> enemies[i].isActive]
  /\ UNCHANGED <<currentLevel, current, isShifting, initialised, luminaLayer, umbraLayer, enemies,
                 timers, colliders, activeCollider, enemyCollider, paused, accepted,
                 sinceAccept, lastCall, notified, observed>>
  /\ UNCHANGED inputVars
  /\ UNCHANGED flowVars
  /\ UNCHANGED audioVars

PhysicsStep == \E i \in DOMAIN enemies : EnemyContact(i)

\* some caller reads the manager through one of its getters
Query(getter) ==
  /\ Store(GetterCall(Working, getter))
  /\ lastStep' = [kind |-> "other"]
  /\ UNCHANGED <<currentLevel, paused, accepted, sinceAccept, lastCall>>
  /\ UNCHANGED inputVars
  /\ UNCHANGED flowVars
  /\ UNCHANGED audioVars

QueryCall == \E getter \in Getters : Query(getter)

Next == Shift \/ ClockUpdate \/ TogglePause \/ RestartLevel \/ PhysicsStep \/ QueryCall

Spec == Init /\ [][Next]_vars

NextFault == Next \/ ShiftFault

FaultSpec == Init /\ [][NextFault]_vars

\* the scene clock keeps running frames whenever the scene is not paused
LiveSpec == Spec /\ SF_vars(ClockUpdate)

\* The DimensionManager as any caller of its public methods may use it: the
\* scene has constructed it and not yet called init().
InitConstructed ==
  \E level \in Levels :
    LET r == Constructed(level)
    IN  /\ currentLevel = level
        /\ current = r.current
        /\ isShifting = r.isShifting
        /\ initialised = r.initialised
        /\ luminaLayer = r.luminaLayer
        /\ umbraLayer = r.umbraLayer
        /\ enemies = r.enemies
        /\ timers = r.timers
        /\ colliders = r.colliders
        /\ activeCollider = r.activeCollider
        /\ enemyCollider = r.enemyCollider
        /\ notified = r.notified
        /\ observed = r.observed
        /\ paused = FALSE
        /\ accepted = 0
        /\ sinceAccept = 0
        /\ lastCall = [made |-> FALSE, first |-> TRUE, since |-> 0, accepted |-> FALSE,
                       threw |-> FALSE]
        /\ lastStep = [kind |-> "start"]
        /\ touch = NewTouchControls
        /\ touchHistory = NoTouchHistory
        /\ currentLevelIndex = 0
        /\ levelComplete = FALSE
        /\ victory = FALSE
        /\ listeners = CreateListeners(0)
        /\ flow = NoFlow
        /\ audio = startAmbient(NewAudioManager(FALSE))
        /\ orphan = NewAudioManager(FALSE)

\* dimensionManager.init(...) and the rest of create()
InitManager ==
  /\ ~initialised
  /\ Store(FinishCreate(Working, currentLevel))
  /\ lastStep' = [kind |-> "other"]
  /\ UNCHANGED <<currentLevel, paused, accepted, sinceAccept, lastCall>>
  /\ UNCHANGED inputVars
  /\ UNCHANGED flowVars
  /\ UNCHANGED audioVars

NextApi == Next \/ InitManager

ApiSpec == InitConstructed /\ [][NextApi]_vars

\* update() of a running scene runs every enemy's AI, each with the player at
\* some distance and the wall clock at some phase of the pulse
UpdateEnemies ==
  /\ ~paused
  /\ enemies # << >>
  /\ \E input \in [DOMAIN enemies -> PlayerRanges \X PulseAlphas] :
       enemies' = [i \in DOMAIN enemies |->
                     updateAI(enemies[i], input[i][1], input[i][2])]
  /\ lastStep' = [kind |-> "other"]
  /\ UNCHANGED <<currentLevel, current, isShifting, initialised, luminaLayer, umbraLayer,
                 timers, colliders, activeCollider, enemyCollider, paused, accepted,
                 sinceAccept, lastCall, notified, observed>>
  /\ UNCHANGED inputVars
  /\ UNCHANGED flowVars
  /\ UNCHANGED audioVars

NextAI == Next \/ UpdateEnemies

\* the enemies' AI does not read the tiles: levels with the ground of
\* GroundLevel and any enemies stand for all
InitAI ==
  /\ Init
  /\ currentLevel.lumina = GroundLevel.lumina
  /\ currentLevel.umbra = GroundLevel.umbra

AISpec == InitAI /\ [][NextAI]_vars

\* The touch buttons and the reader of their state.  The scene's other state
\* is left alone by the three handlers.
sceneVars ==
  <<currentLevel, current, isShifting, initialised, luminaLayer, umbraLayer, enemies,
    timers, colliders, activeCollider, enemyCollider, paused, accepted, sinceAccept,
    lastCall, notified, observed, lastStep, currentLevelIndex, levelComplete, victory,
    listeners, flow, audio, orphan>>

\* pointerdown on a button of a running scene
PointerDown(button) ==
  /\ ~paused
  /\ touch' = onDown(touch, button)
  /\ touchHistory' =
       [touchHistory EXCEPT
          !.held[button] = TRUE,
          !.pressed = [b \in ImpulseButtons |-> IF b = button THEN TRUE ELSE @[b]],
          !.reads = [b \in ImpulseButtons |-> IF b = button THEN 0 ELSE @[b]]]
  /\ UNCHANGED sceneVars

\* pointerup or pointerout on a button under a finger
PointerUp(button) ==
  /\ ~paused
  /\ touchHistory.held[button]
  /\ touch' = onUp(touch, button)
  /\ touchHistory' = [touchHistory EXCEPT !.held[button] = FALSE]
  /\ UNCHANGED sceneVars

\* Player.update reads the touch state, once per frame
GetState ==
  /\ ~paused
  /\ LET r == getState(touch)
     IN  /\ touch' = r.controls
         /\ touchHistory' =
              [touchHistory EXCEPT
                 !.reads = [b \in ImpulseButtons |-> Min(@[b] + 1, MaxReads)],
                 !.read = TRUE,
                 !.returned = r.state,
                 !.readNo = [b \in ImpulseButtons |->
                               IF touchHistory.pressed[b]
                               THEN Min(touchHistory.reads[b] + 1, MaxReads) ELSE 0],
                 !.readHeld = [b \in ImpulseButtons |-> touchHistory.held[b]]]
  /\ UNCHANGED sceneVars

Press == \E button \in Buttons : PointerDown(button)

Release == \E button \in Buttons : PointerUp(button)

NextTouch == Press \/ Release \/ GetState

\* the touch handlers do not read the level: one level stands for all
InitTouch == Init /\ currentLevel = GroundLevel

TouchSpec == InitTouch /\ [][NextTouch]_vars

\* The flow of the scene from load to load, on a device with Web Audio.
\* accepted, sinceAccept and lastCall stay the history of Shift, the action
\* under which the DimensionManager is studied; pausing is studied there too.
\* A frame of update(): the player may ask for a shift and may stand within
\* reach of the portal
UpdateFrame ==
  /\ ~paused
  /\ \E wantsShift, atExit \in BOOLEAN :
       /\ wantsShift \/ atExit
       /\ wantsShift => (isShifting \/ notified < MaxShifts)
       /\ LET r == update(Working, wantsShift, atExit)
          IN  /\ Store(r)
              /\ StoreScene(r)
              /\ StoreAudio(r)
  /\ lastStep' = [kind |-> "update", complete |-> levelComplete]
  /\ UNCHANGED <<currentLevel, paused, accepted, sinceAccept, lastCall>>
  /\ UNCHANGED inputVars

\* the player dies (Player emits 'player-died' on the scene's events)
PlayerDied ==
  /\ ~paused
  /\ flow.deaths < MaxDeaths
  /\ LET r == emitPlayerDied([Working EXCEPT !.flow.deaths = @ + 1], listeners)
     IN  /\ Store(r)
         /\ StoreScene(r)
         /\ StoreAudio(r)
  /\ lastStep' = [kind |-> "died", timers |-> Len(timers), handled |-> flow.handled]
  /\ UNCHANGED <<currentLevel, paused, accepted, sinceAccept, lastCall>>
  /\ UNCHANGED inputVars

\* keydown-ENTER on the victory screen: MenuScene, which starts GameScene
\* at level 0
PlayAgain ==
  /\ victory
  /\ Loaded(LevelFor(0), 0, audio)

\* a setTimeout of crossfadeAmbient() runs out: wall-clock time, which runs
\* whatever the scene does (paused, restarted), so the callback may come at
\* any later step
AmbientTimeout ==
  /\ audio.pending > 0
  /\ audio' = AmbientTimeoutCallback(audio)
  /\ lastStep' = [kind |-> "other"]
  /\ UNCHANGED <<orphan, touch, touchHistory, currentLevelIndex, levelComplete, victory,
                 listeners, flow>>
  /\ UNCHANGED <<currentLevel, current, isShifting, initialised, luminaLayer, umbraLayer,
                 enemies, timers, colliders, activeCollider, enemyCollider, paused,
                 accepted, sinceAccept, lastCall, notified, observed>>

\* the same for the AudioManager of the scene instance torn down
OrphanTimeout ==
  /\ orphan.pending > 0
  /\ orphan' = AmbientTimeoutCallback(orphan)
  /\ lastStep' = [kind |-> "other"]
  /\ UNCHANGED <<audio, touch, touchHistory, currentLevelIndex, levelComplete, victory,
                 listeners, flow>>
  /\ UNCHANGED <<currentLevel, current, isShifting, initialised, luminaLayer, umbraLayer,
                 enemies, timers, colliders, activeCollider, enemyCollider, paused,
                 accepted, sinceAccept, lastCall, notified, observed>>

\* the frames of the scene's flow are taken a transition's length at a time
SceneDeltas == {SHIFT_DURATION_MS}

SceneClock == ClockStep(SceneDeltas)

NextScene ==
  \/ UpdateFrame
  \/ PlayerDied
  \/ SceneClock
  \/ RestartLevel
  \/ PlayAgain
  \/ AmbientTimeout
  \/ OrphanTimeout

InitScene == InitLoaded(ALL_LEVELS[0], TRUE)

SceneSpec == InitScene /\ [][NextScene]_vars

\* ------------------------------------------------------------------------
\*  Properties
\* ------------------------------------------------------------------------
IsUnlock(t) == t.kind = "unlock"

UnlockTimers == SelectSeq(timers, IsUnlock)

\* the dimension n accepted shifts lead to, starting from Lumina
DimensionAfter(n) == IF n % 2 = 1 THEN UMBRA ELSE LUMINA

\* the layers of an active dimension dim: lum and umb as applyDimensionState
\* is documented to leave them
LayersApplied(dim, lum, umb) ==
  LET act == IF dim = LUMINA THEN lum ELSE umb
      ina == IF dim = LUMINA THEN umb ELSE lum
      ghostTint == IF dim = LUMINA THEN UMBRA_TINT ELSE LUMINA_TINT
  IN  /\ act.alpha = FULL_ALPHA
      /\ act.depth = 1
      /\ \A c \in Cells : act.tiles[c].tint = NEUTRAL_TINT
      /\ \A c \in Cells : Occupied(act, c) => act.tiles[c].collides
      /\ ina.alpha = GHOST_ALPHA
      /\ ina.depth = 0
      /\ \A c \in Cells : ina.tiles[c].tint = ghostTint
      /\ \A c \in Cells : ~ina.tiles[c].collides

\* C1: in every reachable state exactly one of Lumina and Umbra is the
\* active dimension: getCurrent() is one of the two, never both, never neither.
C1_ExactlyOneActive ==
  /\ current \in Dimensions
  /\ Cardinality({d \in Dimensions : current = d}) = 1

\* a shift has been accepted, its lock has expired, Umbra is active
C1_Witness == accepted >= 1 /\ ~isShifting /\ current = UMBRA /\ sinceAccept >= SHIFT_DURATION_MS

\* C2: a shift() call at scene time t is accepted exactly when no shift was
\* accepted later than t - 200 (none at all, or the last one at least 200 ms
\* before): the flag and the delayed callback decide as the comparison of the
\* time against unlocksAt does.
C2_CooldownDecision ==
  lastCall.made =>
    (lastCall.accepted <=> (lastCall.first \/ lastCall.since >= SHIFT_DURATION_MS))

\* a call 210 ms after an accepted shift was accepted
C2_Witness == lastCall.made /\ lastCall.accepted /\ ~lastCall.first /\ lastCall.since = 210

\* C3: a shift() call made while the lock is held changes nothing: the
\* dimension, the lock flag, both layers, the enemies and the pending clock
\* events stay as they are and the callback is not invoked.
C3_DroppedShiftIsNoOp ==
  [][(isShifting /\ Shift) => (UNCHANGED progVars /\ notified' = notified /\ observed' = observed)]_vars

\* a call was dropped 150 ms into the lock
C3_Witness == lastCall.made /\ ~lastCall.accepted /\ lastCall.since = 150 /\ isShifting

\* C4: dropped calls neither queue a transition nor extend the lock: after an
\* accepted shift the machine is locked exactly while less than 200 ms have
\* passed, the one pending unlock event has run for exactly that time, nothing
\* is pending once it has fired, and the active dimension is the one the last
\* accepted shift set.
C4_DropsDoNotExtendLock ==
  accepted > 0 =>
    /\ isShifting <=> sinceAccept < SHIFT_DURATION_MS
    /\ isShifting =>
         UnlockTimers = <<[kind |-> "unlock", delay |-> SHIFT_DURATION_MS, elapsed |-> sinceAccept]>>
    /\ ~isShifting => UnlockTimers = << >>
    /\ current = DimensionAfter(accepted)

\* a call was dropped during the lock and the lock has just expired, on time
C4_Witness ==
  /\ lastCall.made /\ ~lastCall.accepted
  /\ ~isShifting /\ sinceAccept = SHIFT_DURATION_MS
  /\ current = UMBRA

\* C5: an accepted shift() turns Lumina into Umbra and Umbra into Lumina and
\* leaves the machine locked when it returns.
C5_AcceptedShiftToggles ==
  [][(~isShifting /\ Shift) =>
       /\ current = LUMINA => current' = UMBRA
       /\ current = UMBRA => current' = LUMINA
       /\ isShifting']_vars

\* the second accepted shift has just returned: back in Lumina, locked
C5_Witness ==
  /\ lastCall.made /\ lastCall.accepted /\ accepted = 2
  /\ sinceAccept = 0 /\ current = LUMINA /\ isShifting

\* C6: whenever the transition callback runs, the layers are already fully
\* applied for the new dimension: every occupied cell of the active layer
\* collides and no cell of the inactive layer does.
C6_CallbackSeesAppliedLayers ==
  observed # << >> =>
    LET o == observed[1]
        act == IF o.dim = LUMINA THEN o.luminaLayer ELSE o.umbraLayer
        ina == IF o.dim = LUMINA THEN o.umbraLayer ELSE o.luminaLayer
    IN  /\ \A c \in Cells : Occupied(act, c) => act.tiles[c].collides
        /\ \A c \in Cells : Occupied(ina, c) => ~ina.tiles[c].collides

\* a callback ran for a shift to Umbra in a level with tiles in both layers
C6_Witness ==
  /\ observed # << >>
  /\ observed[1].dim = UMBRA
  /\ \E c \in Cells : Occupied(observed[1].luminaLayer, c)
  /\ \E c \in Cells : Occupied(observed[1].umbraLayer, c)

\* C7: in every state after init() the active dimension's layer has alpha 1.0,
\* the neutral tint on every tile, collision on every occupied cell and depth
\* 1, and the other layer has alpha 0.2, its ghost tint on every tile,
\* collision on no cell and depth 0.
C7_LayerStateMatchesDimension == LayersApplied(current, luminaLayer, umbraLayer)

\* Lumina is the ghost after a shift, in a level whose Lumina layer has an
\* occupied and an empty cell and whose Umbra layer has an occupied cell
C7_Witness ==
  /\ current = UMBRA
  /\ \E c \in Cells : Occupied(luminaLayer, c)
  /\ \E c \in Cells : ~Occupied(luminaLayer, c)
  /\ \E c \in Cells : Occupied(umbraLayer, c)

\* C8: every accepted shift emits exactly one notification and a dropped one
\* none, so the notifications number the accepted shifts, and the latest
\* notification carried the dimension that is now active.
C8_OneNoticePerAcceptedShift ==
  /\ notified = accepted
  /\ (observed = << >>) <=> (accepted = 0)
  /\ observed # << >> => observed[1].dim = current

\* two shifts were accepted and a later call was dropped
C8_Witness == accepted = 2 /\ lastCall.made /\ ~lastCall.accepted /\ notified = 2

\* C9: even when the transition callback throws, the accepted shift ends with
\* the dimension flipped and both layers applied, and the lock is released
\* 200 ms later.
C9_ThrowingCallbackCannotBlock ==
  accepted > 0 =>
    /\ current = DimensionAfter(accepted)
    /\ LayersApplied(current, luminaLayer, umbraLayer)
    /\ sinceAccept >= SHIFT_DURATION_MS => ~isShifting

\* C10: while the scene clock keeps advancing, a locked machine becomes
\* unlocked again; as long as it is locked its unlock event is pending.
C10_LockEventuallyReleased ==
  /\ [](isShifting => Len(UnlockTimers) > 0)
  /\ ([]<>~paused) => (isShifting ~> ~isShifting)

\* the lock of the second accepted shift has expired
C10_Witness == accepted = 2 /\ ~isShifting /\ sinceAccept >= SHIFT_DURATION_MS /\ ~paused

\* C11: at most one transition is in flight: the scene clock never holds more
\* than one unlock event, and getIsShifting() answers true exactly when one is
\* pending.
C11_AtMostOneTransitionInFlight ==
  /\ Len(UnlockTimers) <= 1
  /\ isShifting <=> Len(UnlockTimers) = 1

\* the third accepted shift is in flight, 50 ms in, with its one unlock event
C11_Witness ==
  /\ accepted = 3 /\ isShifting /\ sinceAccept = 50
  /\ Len(UnlockTimers) = 1

\* C12: every level load starts in Stable(Lumina): right after the scene has
\* been started, for the first time or over a scene that was in any dimension,
\* locked or not, Lumina is active, the machine is unlocked with no unlock
\* event pending, the Lumina layer is the solid one and the Umbra layer the
\* ghost.
C12_LevelLoadStartsInLumina ==
  lastStep.kind \in {"start", "restart"} =>
    /\ current = LUMINA
    /\ ~isShifting
    /\ UnlockTimers = << >>
    /\ LayersApplied(LUMINA, luminaLayer, umbraLayer)

\* the level was restarted out of Umbra with the lock held, and it has tiles
\* in both layers
C12_Witness ==
  /\ lastStep.kind = "restart"
  /\ lastStep.current = UMBRA /\ lastStep.isShifting
  /\ \E c \in Cells : Occupied(luminaLayer, c)
  /\ \E c \in Cells : Occupied(umbraLayer, c)

\* C13: applyDimensionState is idempotent: run a second time with the same
\* active dimension it leaves alpha, tint, collision flags and depth of both
\* layers as the first run left them.  The first run starts from the layers
\* as they are (applied for the active dimension), as the last transition
\* left them for the other dimension, or as createTilemap built them.
C13_ApplyIsIdempotent ==
  LET built == [Working EXCEPT !.luminaLayer = BuildLayer(currentLevel.lumina),
                               !.umbraLayer = BuildLayer(currentLevel.umbra)]
      inputs == {Working, [Working EXCEPT !.current = OtherDimension(@)],
                 built, [built EXCEPT !.current = OtherDimension(@)]}
  IN  /\ applyDimensionState(Working) = Working
      /\ \A s \in inputs :
           applyDimensionState(applyDimensionState(s)) = applyDimensionState(s)

\* Umbra is active, the lock has expired, and every cell of both layers holds
\* a tile
C13_Witness ==
  /\ accepted = 1 /\ current = UMBRA /\ ~isShifting
  /\ \A c \in Cells : Occupied(luminaLayer, c) /\ Occupied(umbraLayer, c)

\* C14: shifting is a round trip: after two accepted shifts, and after any
\* even number of them, Lumina is active again and both layers (alpha, tint,
\* collision flags, depth) are exactly as init() left them.
C14_RoundTrip ==
  accepted % 2 = 0 =>
    /\ current = LUMINA
    /\ luminaLayer = Create(currentLevel).luminaLayer
    /\ umbraLayer = Create(currentLevel).umbraLayer

\* two shifts were accepted in a level with an occupied and an empty cell in
\* each layer, and the second lock has expired
C14_Witness ==
  /\ accepted = 2 /\ ~isShifting
  /\ \E c \in Cells : Occupied(luminaLayer, c) /\ ~Occupied(umbraLayer, c)
  /\ \E c \in Cells : ~Occupied(luminaLayer, c) /\ Occupied(umbraLayer, c)

\* C15: a cell that holds no tile (tile index -1 or 0) is never collidable, in
\* the Lumina layer or the Umbra layer, active or ghost, after any sequence of
\* shifts.
C15_EmptyCellsNeverCollide ==
  \A c \in Cells :
    /\ luminaLayer.tiles[c].index \in {0, -1} => ~luminaLayer.tiles[c].collides
    /\ umbraLayer.tiles[c].index \in {0, -1} => ~umbraLayer.tiles[c].collides

\* Umbra is active after three accepted shifts and has an empty cell next to
\* an occupied one; so has the ghost layer
C15_Witness ==
  /\ accepted = 3 /\ current = UMBRA
  /\ \E c, d \in Cells : ~Occupied(umbraLayer, c) /\ Occupied(umbraLayer, d)
  /\ \E c, d \in Cells : ~Occupied(luminaLayer, c) /\ Occupied(luminaLayer, d)

\* C16: between shift() calls every enemy's activation agrees with the
\* dimension: canDamage() (isActive) is true exactly when the enemy's home
\* dimension is getCurrent(), and its physics body is enabled exactly when it
\* is active; this holds from the moment the enemy is spawned.
C16_EnemyActivationAgrees ==
  \A i \in DOMAIN enemies :
    /\ enemies[i].isActive <=> (enemies[i].dimension = current)
    /\ enemies[i].bodyEnable <=> enemies[i].isActive

\* a ChaseEnemy (Umbra), spawned as a ghost in Lumina, has been woken by the
\* first accepted shift: it is active with its body enabled
C16_Witness ==
  /\ accepted = 1 /\ current = UMBRA
  /\ \E i \in DOMAIN enemies :
       /\ enemies[i].dimension = UMBRA
       /\ enemies[i].isActive /\ enemies[i].bodyEnable

\* what an enemy e looks like once it has processed a transition to dim: at
\* home opaque, untinted, body enabled; away at ghost alpha, in the ghost tint
\* of its own home dimension, body disabled
EntityConsistent(e, dim) ==
  IF e.dimension = dim
  THEN e.alpha = FULL_ALPHA /\ e.tint = NEUTRAL_TINT /\ e.bodyEnable
  ELSE /\ e.alpha = GHOST_ALPHA
       /\ e.dimension = LUMINA => e.tint = LUMINA_TINT
       /\ e.dimension = UMBRA => e.tint = UMBRA_TINT
       /\ ~e.bodyEnable

\* C17: when an enemy processes a transition (inside an accepted shift, or at
\* spawn) it ends at alpha 1.0, untinted and with its body enabled if the
\* transition is to its home dimension, and at alpha 0.2, in the ghost tint of
\* its own home dimension and with its body disabled otherwise.
C17_EnemyEndsTransitionConsistent ==
  [][((~isShifting /\ Shift) \/ RestartLevel) =>
       \A i \in DOMAIN enemies' : EntityConsistent(enemies'[i], current')]_vars

\* the first accepted shift has just returned and left a PatrolEnemy (Lumina)
\* as a ghost in its own Lumina tint
C17_Witness ==
  /\ accepted = 1 /\ lastCall.accepted /\ sinceAccept = 0
  /\ \E i \in DOMAIN enemies :
       /\ enemies[i].dimension = LUMINA
       /\ enemies[i].alpha = GHOST_ALPHA /\ enemies[i].tint = LUMINA_TINT
       /\ ~enemies[i].bodyEnable

\* C18: a ghosted enemy never damages the player: the overlap callback calls
\* Player.takeDamage only for an enemy whose home dimension is the active one,
\* and an enemy whose home dimension is not active has its body disabled, so
\* the physics world processes no contact with it at all.
C18_GhostNeverDamages ==
  /\ [](lastStep.kind = "contact" /\ lastStep.damaged => lastStep.home = lastStep.current)
  /\ [](\A i \in DOMAIN enemies :
          enemies[i].dimension # current => ~enemies[i].bodyEnable)
  /\ [][\A i \in DOMAIN enemies :
          EnemyContact(i) => enemies[i].dimension = current]_vars

\* the player has just been damaged by a ChaseEnemy (Umbra) while Umbra is
\* active, after the enemy had been a ghost in Lumina
C18_Witness ==
  /\ lastStep.kind = "contact" /\ lastStep.damaged
  /\ lastStep.home = UMBRA /\ current = UMBRA
  /\ accepted = 1

\* C19: after level creation and after every accepted shift the physics world
\* holds exactly one player-to-tile-layer collider, the one the scene's field
\* refers to, and it binds the player to getActiveLayer(); no collider binds
\* the player to the inactive layer, and colliders do not accumulate.
C19_OnePlayerColliderOnActiveLayer ==
  /\ activeCollider
  /\ colliders.playerTile = <<ActiveLayerId(Working)>>

\* the collider has been rebuilt by three accepted shifts: the single one left
\* is on the Umbra layer
C19_Witness ==
  /\ accepted = 3 /\ current = UMBRA /\ ~isShifting
  /\ colliders.playerTile = <<"umbraLayer">>

\* C20: after every accepted shift every enemy's tile collider is bound to
\* the layer that is now active, and an enemy whose body is enabled always has
\* its tile collider on getActiveLayer().
C20_EnemyTileColliderOnActiveLayer ==
  /\ accepted > 0 =>
       \A i \in DOMAIN enemies : colliders.enemyTile[i] = ActiveLayerId(Working)
  /\ \A i \in DOMAIN enemies :
       enemies[i].bodyEnable => colliders.enemyTile[i] = ActiveLayerId(Working)

\* C21: the lock outlasts every visual effect an accepted shift starts (camera
\* flash, shake and zoom pulse, parallax cross-fade, particle burst): a shift
\* accepted after an earlier one, a known time after it, finds each of that
\* shift's effects run out.
C21_LockOutlastsEffects ==
  (lastCall.made /\ lastCall.accepted /\ ~lastCall.first /\ lastCall.since < MaxSince) =>
    \A e \in ShiftEffects : lastCall.since >= e.runs

\* C22: shift() has no error outcome: whenever it is called, before init()
\* has supplied the layers and the callback as well as after, the call is
\* accepted or silently dropped and does not throw.
C22_ShiftNeverThrows == lastCall.made => ~lastCall.threw

\* the layer object that belongs to dimension d
LayerOf(d) == IF d = LUMINA THEN "luminaLayer" ELSE "umbraLayer"

C24_OneEventPerPress ==
  touchHistory.read =>
    /\ touchHistory.returned.shiftJustPressed <=> (touchHistory.readNo["shift"] = 1)
    /\ touchHistory.returned.jumpJustPressed <=> (touchHistory.readNo["jump"] = 1)

\* the shift button was pressed and is still held; the second getState() since
\* the press has just reported no press
C24_Witness ==
  /\ touchHistory.read
  /\ touchHistory.readNo["shift"] = 2 /\ touchHistory.readHeld["shift"]
  /\ ~touchHistory.returned.shiftJustPressed

\* C25: lock expiry only reopens the gate: in the clock update in which the
\* unlock callback fires, isShifting becomes false and the active dimension,
\* both layers (alpha, tint, collision, depth), the colliders and every enemy
\* stay as they were, and no notification is emitted.
C25_UnlockOnlyReopensGate ==
  [][(ClockUpdate /\ isShifting /\ ~isShifting') =>
       /\ UNCHANGED <<current, luminaLayer, umbraLayer, enemies,
                      colliders, activeCollider, enemyCollider>>
       /\ notified' = notified
       /\ observed' = observed
       /\ UnlockTimers' = << >>]_vars

\* the unlock callback of the first accepted shift has just fired, 210 ms
\* after it, in Umbra, in a level with an enemy and tiles in the ghost layer
C25_Witness ==
  /\ accepted = 1 /\ ~isShifting /\ sinceAccept = 210
  /\ current = UMBRA
  /\ Len(enemies) > 0
  /\ \E c \in Cells : Occupied(luminaLayer, c)

\* C26: between transitions an enemy keeps the visual state its last
\* transition gave it, updateAI() calls included: at home alpha 1.0 and no
\* tint, away alpha 0.2 and the ghost tint of its home dimension.
C26_EnemyKeepsVisualState ==
  \A i \in DOMAIN enemies :
    IF enemies[i].dimension = current
    THEN enemies[i].alpha = FULL_ALPHA /\ enemies[i].tint = NEUTRAL_TINT
    ELSE /\ enemies[i].alpha = GHOST_ALPHA
         /\ enemies[i].tint = (IF enemies[i].dimension = LUMINA THEN LUMINA_TINT
                               ELSE UMBRA_TINT)

\* C26, amended: an enemy away from home keeps alpha 0.2 and its ghost tint,
\* and an enemy at home keeps no tint; a PatrolEnemy at home keeps alpha 1.0,
\* while a ChaseEnemy at home has the alpha of the pulse of its latest chase,
\* between 0.6 and 1.0, and 1.0 if it has not chased since the transition: it
\* keeps that alpha after the chase has stopped.
C26_EnemyVisualStateWithPulse ==
  \A i \in DOMAIN enemies :
    IF enemies[i].dimension = current
    THEN /\ enemies[i].tint = NEUTRAL_TINT
         /\ enemies[i].type = "patrol" => enemies[i].alpha = FULL_ALPHA
         /\ enemies[i].type = "chase" =>
              enemies[i].alpha >= 60 /\ enemies[i].alpha <= FULL_ALPHA
    ELSE /\ enemies[i].alpha = GHOST_ALPHA
         /\ enemies[i].tint = (IF enemies[i].dimension = LUMINA THEN LUMINA_TINT
                               ELSE UMBRA_TINT)

\* Umbra is active and a ChaseEnemy that has stopped chasing is left at the
\* pulse's lowest alpha
C26_Witness ==
  /\ current = UMBRA
  /\ \E i \in DOMAIN enemies :
       /\ enemies[i].type = "chase" /\ enemies[i].isActive
       /\ ~enemies[i].isChasing /\ enemies[i].alpha = 60

\* C27: the level is completed at most once per load: the effects of
\* completeLevel() (chime, audio stop, the delayed restart or the victory
\* screen) have run exactly once when levelComplete is set and not at all
\* before, whatever the number of frames the player spends at the portal; and
\* while levelComplete stays set no shift is accepted: the dimension stays
\* and the scene is not notified.
C27_CompletionOncePerLoad ==
  /\ [](flow.effects <= 1)
  /\ [](levelComplete <=> flow.effects = 1)
  /\ [](levelComplete =>
          \/ victory
          \/ Len(SelectSeq(timers, LAMBDA t : t.kind = "advance")) = 1)
  /\ [][(levelComplete /\ levelComplete') =>
          (current' = current /\ notified' = notified)]_vars

\* a frame of update() has run, asking for a shift or at the portal, in a
\* load whose level was already complete
C27_Witness ==
  /\ lastStep.kind = "update"
  /\ lastStep.complete
  /\ flow.effects = 1

\* C28: the load that follows the completion of a level that is not the last
\* is the load of the next index, and the index stays within the table.
C28_NextLoadIsNextLevel ==
  /\ currentLevelIndex \in 0 .. NumLevels - 1
  /\ (lastStep.kind = "restart" /\ lastStep.fromComplete
        /\ lastStep.fromIndex + 1 < NumLevels)
       => currentLevelIndex = lastStep.fromIndex + 1

\* C29: an AudioManager whose drone the scene has stopped (completion, death,
\* restart) has no ambient oscillator running afterwards, and no AudioManager
\* has more than one.
C29_NoDroneAfterStop ==
  \A m \in {audio, orphan} :
    /\ m.oscillators <= 1
    /\ m.silenced => m.oscillators = 0

====
